---- MODULE Spec2Model ----
(***************************************************************************)
(* A model of the liquidity-pool dashboards of this repository:            *)
(*   src/app.py                   the Dash application (filter callback,   *)
(*                                portfolio callback, portfolio store)     *)
(*   src/live_dashboard.py        the Streamlit application (fetch with    *)
(*                                retries, normalize, Vora score)          *)
(* Four specifications share the variables: Spec (the Dash callbacks),     *)
(* SpecFilter (update_results as a function), SpecFetch (both fetch_data), *)
(* SpecScore (calculate_vora_score run twice over one input).              *)
(* Conventions.  A pandas row label n (0-based) is the model's n + 1, and  *)
(* a DataTable row index n (0-based) is the model's n + 1, so labels and   *)
(* positions keep the relation they have in the code.  A string that the   *)
(* code searches in (a symbol, a token filter) is a sequence of one-letter *)
(* strings.  A float is a record [nan, n, d]: NaN, or the rational n / d.  *)
(***************************************************************************)
EXTENDS Integers, Sequences, FiniteSets, TLC

VARIABLES
    df,             \* app.py: the module-level DataFrame (rows: label, rec)
    data,           \* app.py: lp-table "data" (list of records)
    selected_rows,  \* app.py: lp-table "selected_rows"
    portfolio,      \* app.py: portfolio-store "data" (list of records)
    stats,          \* app.py: portfolio-stats "children"
    trigger,        \* app.py: the event whose update_portfolio call is pending
                    \* ("filter", "user") or was served ("filter_done",
                    \* "user_done"); "none" after the layout is built
    criteria,       \* filter check: the FilterCriteria under test
    out1,           \* filter check: update_results applied once
    out2,           \* filter check: update_results applied to out1
    fphase,         \* filter check: "init" | "once" | "twice"
    variant,        \* fetch: whose fetch_data runs, "live_dashboard" | "app"
    retries,        \* fetch: live_dashboard.py's retries counter
    attempts,       \* fetch: what each requests.get so far met
    fetched,        \* fetch: where the call is and what it returned
    pools,          \* score: the DataFrame main() hands to the Score Engine
    run1,           \* score: calculate_vora_score(pools), first run
    run2            \* score: calculate_vora_score(pools), second run

vars == <<df, data, selected_rows, portfolio, stats, trigger,
          criteria, out1, out2, fphase,
          variant, retries, attempts, fetched, pools, run1, run2>>

appVars == <<df, data, selected_rows, portfolio, stats, trigger>>
filterVars == <<criteria, out1, out2, fphase>>
fetchVars == <<variant, retries, attempts, fetched>>
scoreVars == <<pools, run1, run2>>

----------------------------------------------------------------------------
(* Bounds of the model *)

\* rows in one snapshot of the pools endpoint
MaxPools == 3

\* np.random.randint(50, 100, ...) draws from 50 .. 99; the model draws from
\* ScoreLow .. ScoreHigh
ScoreLow == 50
ScoreHigh == 51

\* rows of a DataFrame the Score Engine is run on twice
MaxScoredRows == 2

\* np.random.uniform(0, 1) draws k / UniformSteps, k in 0 .. UniformSteps - 1
UniformSteps == 2

----------------------------------------------------------------------------
(* Numbers *)

NaN == [nan |-> TRUE, n |-> 0, d |-> 1]

Rat(n, d) == [nan |-> FALSE, n |-> n, d |-> d]

RECURSIVE SumSeq(_)
SumSeq(s) == IF s = <<>> THEN 0 ELSE Head(s) + SumSeq(Tail(s))

\* pandas Series.mean(): NaN over an empty series, no exception
Mean(s) == IF Len(s) = 0 THEN NaN ELSE Rat(SumSeq(s), Len(s))

----------------------------------------------------------------------------
(* Strings *)

Lower(c) ==
    CASE c = "E" -> "e"
      [] c = "U" -> "u"
      [] c = "B" -> "b"
      [] OTHER -> c

\* re.search(pat, sym, re.IGNORECASE) for a pattern of literals and ".":
\* pandas str.contains(pat, case=False, na=False) has regex=True by default
MatchAt(sym, pat, k) ==
    \A j \in 1..Len(pat) :
        \/ pat[j] = "."
        \/ Lower(pat[j]) = Lower(sym[k + j - 1])

StrContains(sym, pat) ==
    \E k \in 1..(Len(sym) - Len(pat) + 1) : MatchAt(sym, pat, k)

----------------------------------------------------------------------------
(* The pools endpoint *)

valid_chains == {"Arbitrum", "Avalanche", "Base", "BNB", "Ethereum",
                 "Optimism", "Polygon", "Solana"}

valid_protocols == {"aave-v2", "aave-v3", "aerodrome-v1", "aerodrome-v2",
                    "convex-finance", "orca", "pancakeswap-amm",
                    "pancakeswap-amm-v3", "pendle", "quickswap-dex",
                    "sushiswap", "uniswap-v2", "uniswap-v3", "velodrome-v2",
                    "yearn-finance", "yldr"}

Pool(sym, chain, proto, tvl, apy) ==
    [Symbol |-> sym, Chain |-> chain, Protocol |-> proto,
     TVL |-> tvl, APY |-> apy]

\* What the endpoint can return, in its order: two fee tiers of one pair on
\* one chain and protocol (same symbol, chain, project; different tvlUsd),
\* a pool of a chain outside valid_chains, and two more pools.  TVL and APY
\* are in units that keep the numbers small.
Feed ==
    << Pool(<<"E", "-", "U">>, "Ethereum", "uniswap-v3", 3, 8),
       Pool(<<"b", "-", "e">>, "Fantom", "sushiswap", 4, 9),
       Pool(<<"E", "-", "U">>, "Ethereum", "uniswap-v3", 2, 4),
       Pool(<<"U", ".", "E">>, "Arbitrum", "aave-v3", 1, 6),
       Pool(<<"b", "-", "U">>, "Base", "aerodrome-v1", 5, 7) >>

\* response.json()["data"]: a non-empty run of consecutive pools of the feed
Snapshots ==
    {SubSeq(Feed, w[1], w[2]) :
        w \in {w \in (1..Len(Feed)) \X (1..Len(Feed)) :
                  w[1] <= w[2] /\ w[2] - w[1] < MaxPools}}

Scores == ScoreLow..ScoreHigh

WithScore(p, sc) ==
    [Symbol |-> p.Symbol, Chain |-> p.Chain, Protocol |-> p.Protocol,
     TVL |-> p.TVL, APY |-> p.APY, Score |-> sc]

\* pd.DataFrame(records): rows labelled by a fresh RangeIndex
ToFrame(recs) == [i \in 1..Len(recs) |-> [label |-> i, rec |-> recs[i]]]

\* df.to_dict("records")
ToRecords(rows) == [i \in 1..Len(rows) |-> rows[i].rec]

\* fetch_data of app.py on a 200 response: the renamed columns and a random
\* Vora Score per row
fetch_data_frames(raw) ==
    {ToFrame([i \in 1..Len(raw) |-> WithScore(raw[i], sc[i])]) :
        sc \in [1..Len(raw) -> Scores]}

IsValidRow(row) ==
    /\ row.rec.Chain \in valid_chains
    /\ row.rec.Protocol \in valid_protocols

IsSortedDesc(rows) ==
    \A i, j \in 1..Len(rows) : i < j => rows[i].rec.Score >= rows[j].rec.Score

\* sort_values(by="Vora Score", ascending=False): the default kind is
\* quicksort, which is not stable, so rows of equal score come out in an
\* order the call does not fix
SortValues(rows) ==
    {p \in {[i \in 1..Len(rows) |-> rows[f[i]]] : f \in Permutations(1..Len(rows))} :
        IsSortedDesc(p)}

----------------------------------------------------------------------------
(* update_results *)

NoToken == <<>>

Criteria(chains, protocols, t1, t2, tvl, apy) ==
    [chains |-> chains, protocols |-> protocols, token1 |-> t1,
     token2 |-> t2, tvl |-> tvl, apy |-> apy]

DefaultCriteria == Criteria({}, {}, NoToken, NoToken, 0, 0)

\* the filter controls' values the model draws from
CriteriaSet ==
    { Criteria(ch, pr, t1, t2, tvl, apy) :
        ch \in {{}, {"Ethereum"}, {"Arbitrum"}},
        pr \in {{}, {"uniswap-v3"}},
        t1 \in {NoToken, <<"u">>, <<".">>},
        t2 \in {NoToken, <<"e", "-">>},
        tvl \in {0, 2},
        apy \in {0, 5} }

\* the filter controls' values the Dash machine draws from
AppCriteria ==
    {c \in CriteriaSet :
        c.protocols = {} /\ c.token2 = NoToken /\ c.apy = 0}

\* the six "if <filter>:" steps of update_results, in the code's order
KeepRow(row, c) ==
    /\ (c.chains # {} => row.rec.Chain \in c.chains)
    /\ (c.protocols # {} => row.rec.Protocol \in c.protocols)
    /\ (c.token1 # <<>> => StrContains(row.rec.Symbol, c.token1))
    /\ (c.token2 # <<>> => StrContains(row.rec.Symbol, c.token2))
    /\ (c.tvl # 0 => row.rec.TVL >= c.tvl)
    /\ (c.apy # 0 => row.rec.APY >= c.apy)

FilterRows(rows, c) == SelectSeq(rows, LAMBDA row : KeepRow(row, c))

InList(r, list) == \E k \in 1..Len(list) : list[k] = r

\* [i for i, row in filtered_df.iterrows() if row.to_dict() in portfolio_data]:
\* i is the row's label
SelectedLabels(rows, portfolio_data) ==
    {rows[k].label : k \in {k \in 1..Len(rows) : InList(rows[k].rec, portfolio_data)}}

\* every (data, selected_rows) update_results can return
update_results(frame, c, portfolio_data) ==
    LET filtered == FilterRows(frame, c)
    IN  {[data |-> ToRecords(s),
          selected_rows |-> SelectedLabels(filtered, portfolio_data)] :
            s \in SortValues(filtered)}

----------------------------------------------------------------------------
(* update_portfolio *)

\* derived_virtual_selected_rows: the selected row indices that are rows of
\* the displayed data (the table is modelled without its native sort and
\* filter, so derived_virtual_data is data)
DerivedSelectedRows(sel, view) == {i \in sel : i \in 1..Len(view)}

RECURSIVE SetToSeq(_)
SetToSeq(S) ==
    IF S = {} THEN <<>>
    ELSE LET m == CHOOSE x \in S : \A y \in S : x <= y
         IN  <<m>> \o SetToSeq(S \ {m})

\* pd.DataFrame(data).iloc[selected_rows], the rows taken in index order
ILoc(view, sel) == LET idx == SetToSeq(sel) IN [k \in 1..Len(idx) |-> view[idx[k]]]

\* DataFrame.drop_duplicates(): a row equal in every column to an earlier row
\* is dropped
RECURSIVE DropDuplicates(_)
DropDuplicates(s) ==
    IF s = <<>> THEN <<>>
    ELSE LET front == DropDuplicates(SubSeq(s, 1, Len(s) - 1))
             last == s[Len(s)]
         IN  IF InList(last, front) THEN front ELSE Append(front, last)

\* the Selection replaced by the rows selected in the view
MergePortfolioReplace(portfolio_data, selected) == selected

\* pd.concat([portfolio_df, selected_df]).drop_duplicates()
MergePortfolio(portfolio_data, selected) ==
    DropDuplicates(portfolio_data \o selected)

\* html.P("No LPs selected."): no number is shown
NoLPsSelected == [kind |-> "No LPs selected.", shown |-> <<>>]

Column(recs, col) == [i \in 1..Len(recs) |-> recs[i][col]]

\* the "Portfolio Metrics" block: avg_tvl, avg_apy, avg_vora as shown
PortfolioMetrics(recs) ==
    [kind |-> "Portfolio Metrics",
     shown |-> << Mean(Column(recs, "TVL")),
                  Mean(Column(recs, "APY")),
                  Mean(Column(recs, "Score")) >>]

\* an empty view read as "nothing is selected any more": the store is emptied
update_portfolio_clearing(view, sel, portfolio_data) ==
    IF view = <<>>
    THEN [store |-> <<>>, stats |-> NoLPsSelected]
    ELSE LET portfolio_df == MergePortfolio(portfolio_data, ILoc(view, sel))
         IN  [store |-> portfolio_df, stats |-> PortfolioMetrics(portfolio_df)]

\* the callback's outputs (portfolio-store data, portfolio-stats children)
update_portfolio(view, sel, portfolio_data) ==
    IF view = <<>>
    THEN [store |-> portfolio_data, stats |-> NoLPsSelected]
    ELSE LET portfolio_df == MergePortfolio(portfolio_data, ILoc(view, sel))
         IN  [store |-> portfolio_df, stats |-> PortfolioMetrics(portfolio_df)]

----------------------------------------------------------------------------
(* The Dash application as a state machine *)

\* html.Div(id="portfolio-stats") of the layout: no children yet
EmptyStats == [kind |-> "", shown |-> <<>>]

\* module load: fetch, keep the valid chains and protocols, sort by score;
\* the layout shows df with no row selected and an empty store
AppInit ==
    /\ \E raw \in Snapshots :
         \E frame \in fetch_data_frames(raw) :
            df \in SortValues(SelectSeq(frame, IsValidRow))
    /\ data = ToRecords(df)
    /\ selected_rows = {}
    /\ portfolio = <<>>
    /\ stats = EmptyStats
    /\ trigger = "none"

\* update_portfolio is due: the table's derived properties have changed
Pending == {"filter", "user"}

\* a filter control changes: update_results runs and sets the table
FilterChange ==
    /\ trigger \notin Pending
    /\ \E c \in AppCriteria :
         \E r \in update_results(df, c, portfolio) :
            /\ data' = r.data
            /\ selected_rows' = r.selected_rows
    /\ trigger' = "filter"
    /\ UNCHANGED <<df, portfolio, stats>>

\* the user ticks or unticks rows of the table
SelectRows ==
    /\ trigger \notin Pending
    /\ \E sel \in SUBSET (1..Len(data)) :
         /\ sel # selected_rows
         /\ selected_rows' = sel
    /\ trigger' = "user"
    /\ UNCHANGED <<df, data, portfolio, stats>>

\* the table's derived properties changed: update_portfolio runs
UpdatePortfolio ==
    /\ trigger \in Pending
    /\ LET r == update_portfolio(data, DerivedSelectedRows(selected_rows, data),
                                 portfolio)
       IN  /\ portfolio' = r.store
           /\ stats' = r.stats
    /\ trigger' = (IF trigger = "filter" THEN "filter_done" ELSE "user_done")
    /\ UNCHANGED <<df, data, selected_rows>>

FilterIdle ==
    /\ criteria = DefaultCriteria
    /\ out1 = <<>>
    /\ out2 = <<>>
    /\ fphase = "init"

FetchIdle ==
    /\ variant = "app"
    /\ retries = 0
    /\ attempts = <<>>
    /\ fetched = [pc |-> "returned", value |-> <<>>]

ScoreIdle ==
    /\ pools = <<>>
    /\ run1 = [pc |-> "idle", NORMALIZED_TVL |-> <<>>, NORMALIZED_APY |-> <<>>,
               VORA_SCORE |-> <<>>]
    /\ run2 = run1

Init == AppInit /\ FilterIdle /\ FetchIdle /\ ScoreIdle

Next ==
    \/ FilterChange /\ UNCHANGED <<filterVars, fetchVars, scoreVars>>
    \/ SelectRows /\ UNCHANGED <<filterVars, fetchVars, scoreVars>>
    \/ UpdatePortfolio /\ UNCHANGED <<filterVars, fetchVars, scoreVars>>

Spec == Init /\ [][Next]_vars

----------------------------------------------------------------------------
(* update_portfolio as a function of its three arguments *)

\* the arguments of one call: the displayed data is empty (None or []) or
\* the table of df, the selected indices are any indices (rows of the data
\* when there is data, as iloc requires), the store holds rows selected
\* earlier
PortfolioInit ==
    /\ \E raw \in Snapshots :
         \E frame \in fetch_data_frames(raw) :
            df \in SortValues(SelectSeq(frame, IsValidRow))
    /\ data \in {<<>>, ToRecords(df)}
    /\ selected_rows \in SUBSET (1..MaxPools)
    /\ (data # <<>> => selected_rows \subseteq 1..Len(data))
    /\ \E earlier \in SUBSET (1..Len(df)) :
         portfolio = ILoc(ToRecords(df), earlier)
    /\ stats = EmptyStats
    /\ trigger \in Pending
    /\ FilterIdle
    /\ FetchIdle
    /\ ScoreIdle

\* update_portfolio(data, selected_rows, portfolio_data), its outputs stored
CallUpdatePortfolio ==
    /\ trigger \in Pending
    /\ LET r == update_portfolio(data, selected_rows, portfolio)
       IN  /\ portfolio' = r.store
           /\ stats' = r.stats
    /\ trigger' = (IF trigger = "filter" THEN "filter_done" ELSE "user_done")
    /\ UNCHANGED <<df, data, selected_rows>>

PortfolioNext ==
    CallUpdatePortfolio /\ UNCHANGED <<filterVars, fetchVars, scoreVars>>

SpecPortfolio == PortfolioInit /\ [][PortfolioNext]_vars

----------------------------------------------------------------------------
(* update_results as a function of a collection and a FilterCriteria *)

FilterInit ==
    /\ AppInit
    /\ FetchIdle
    /\ ScoreIdle
    /\ criteria \in CriteriaSet
    /\ out1 = <<>>
    /\ out2 = <<>>
    /\ fphase = "init"

\* update_results(criteria) over the module's df
ApplyOnce ==
    /\ fphase = "init"
    /\ \E r \in update_results(df, criteria, <<>>) : out1' = r.data
    /\ fphase' = "once"
    /\ UNCHANGED <<criteria, out2>>

\* update_results(criteria) over the first output taken as the DataFrame
ApplyTwice ==
    /\ fphase = "once"
    /\ \E r \in update_results(ToFrame(out1), criteria, <<>>) : out2' = r.data
    /\ fphase' = "twice"
    /\ UNCHANGED <<criteria, out1>>

FilterNext ==
    \/ ApplyOnce /\ UNCHANGED <<appVars, fetchVars, scoreVars>>
    \/ ApplyTwice /\ UNCHANGED <<appVars, fetchVars, scoreVars>>

SpecFilter == FilterInit /\ [][FilterNext]_vars

----------------------------------------------------------------------------
(* fetch_data *)

MAX_RETRIES == 3

\* what one requests.get can meet: a 200 response with a "data" array, a
\* response with a 4xx or 5xx status, a refused or broken connection, a
\* server that never answers
Outcomes == {"connection_error", "no_answer", "http_error", "ok"}

\* the Dash machine and the filter check do not fetch
AppIdle ==
    /\ df = <<>>
    /\ data = <<>>
    /\ selected_rows = {}
    /\ portfolio = <<>>
    /\ stats = EmptyStats
    /\ trigger = "none"

FetchInit ==
    /\ AppIdle
    /\ FilterIdle
    /\ ScoreIdle
    /\ variant \in {"live_dashboard", "app"}
    /\ retries = 0
    /\ attempts = <<>>
    /\ fetched = [pc |-> "running", value |-> <<>>]

\* live_dashboard.py: one turn of "while retries < MAX_RETRIES": the get has
\* timeout=10, so a server that never answers raises Timeout; Timeout,
\* ConnectionError and raise_for_status's HTTPError are RequestExceptions
LiveAttempt ==
    /\ variant = "live_dashboard"
    /\ fetched.pc = "running"
    /\ retries < MAX_RETRIES
    /\ \E o \in Outcomes :
         /\ attempts' = Append(attempts, o)
         /\ IF o = "ok"
            THEN /\ \E raw \in Snapshots :
                      fetched' = [pc |-> "returned", value |-> raw]
                 /\ retries' = retries
            ELSE /\ retries' = retries + 1
                 /\ fetched' = fetched
    /\ UNCHANGED variant

\* live_dashboard.py: the loop's condition fails: return []
LiveGiveUp ==
    /\ variant = "live_dashboard"
    /\ fetched.pc = "running"
    /\ retries >= MAX_RETRIES
    /\ fetched' = [pc |-> "returned", value |-> <<>>]
    /\ UNCHANGED <<variant, retries, attempts>>

\* app.py: one requests.get(url) with no timeout and no try: a 200 response
\* returns the frame, another status returns an empty frame, an exception
\* of requests leaves fetch_data, and a server that never answers blocks
AppAttempt ==
    /\ variant = "app"
    /\ fetched.pc = "running"
    /\ \E o \in Outcomes :
         /\ attempts' = Append(attempts, o)
         /\ CASE o = "ok" ->
                    \E raw \in Snapshots :
                        fetched' = [pc |-> "returned", value |-> raw]
              [] o = "http_error" ->
                    fetched' = [pc |-> "returned", value |-> <<>>]
              [] o = "connection_error" ->
                    fetched' = [pc |-> "raised", value |-> <<>>]
              [] o = "no_answer" ->
                    fetched' = [pc |-> "blocked", value |-> <<>>]
    /\ UNCHANGED <<variant, retries>>

FetchNext ==
    \/ LiveAttempt /\ UNCHANGED <<appVars, filterVars, scoreVars>>
    \/ LiveGiveUp /\ UNCHANGED <<appVars, filterVars, scoreVars>>
    \/ AppAttempt /\ UNCHANGED <<appVars, filterVars, scoreVars>>

SpecFetch == FetchInit /\ [][FetchNext]_vars

----------------------------------------------------------------------------
(* normalize and calculate_vora_score of live_dashboard.py *)

RECURSIVE MinSeq(_)
MinSeq(s) ==
    IF Len(s) = 1 THEN s[1]
    ELSE LET m == MinSeq(Tail(s)) IN IF s[1] <= m THEN s[1] ELSE m

RECURSIVE MaxSeq(_)
MaxSeq(s) ==
    IF Len(s) = 1 THEN s[1]
    ELSE LET m == MaxSeq(Tail(s)) IN IF s[1] >= m THEN s[1] ELSE m

\* (series - series.min()) / (series.max() - series.min()): a float
\* division, so 0.0 / 0.0 is NaN and nothing is raised
normalize(series) ==
    IF series = <<>> THEN <<>>
    ELSE LET lo == MinSeq(series)
             hi == MaxSeq(series)
         IN  [i \in 1..Len(series) |->
                IF hi - lo = 0 THEN NaN ELSE Rat(series[i] - lo, hi - lo)]

\* one np.random.uniform(0, 1, len(df)) array
UniformArrays(len) == [1..len -> 0..(UniformSteps - 1)]

\* 25 * ntvl + 20 * napy + 15 * fee + 10 * (1 - il) + 30 * quality, with the
\* three draws in units of 1 / UniformSteps, truncated as astype(int) does
\* to a number that is not negative
VoraScore(ntvl, napy, fee, il, quality) ==
    LET den == ntvl.d * napy.d * UniformSteps
        num == 25 * ntvl.n * napy.d * UniformSteps
                 + 20 * napy.n * ntvl.d * UniformSteps
                 + (15 * fee + 10 * (UniformSteps - il) + 30 * quality)
                     * ntvl.d * napy.d
    IN  num \div den

\* every result calculate_vora_score(frame) can have: the two normalized
\* columns are assigned first; astype(int) raises on a NaN score
calculate_vora_score(frame) ==
    LET ntvl == normalize(Column(frame, "TVL"))
        napy == normalize(Column(frame, "APY"))
        rows == 1..Len(frame)
    IN  IF \E i \in rows : ntvl[i].nan \/ napy[i].nan
        THEN {[pc |-> "raised", NORMALIZED_TVL |-> ntvl,
               NORMALIZED_APY |-> napy, VORA_SCORE |-> <<>>]}
        ELSE {[pc |-> "returned", NORMALIZED_TVL |-> ntvl,
               NORMALIZED_APY |-> napy,
               VORA_SCORE |-> [i \in rows |->
                   VoraScore(ntvl[i], napy[i], fee[i], il[i], quality[i])]] :
                fee \in UniformArrays(Len(frame)),
                il \in UniformArrays(Len(frame)),
                quality \in UniformArrays(Len(frame))}

\* main() scores a non-empty fetch result
ScoreInit ==
    /\ AppIdle
    /\ FilterIdle
    /\ FetchIdle
    /\ pools \in {s \in Snapshots : Len(s) <= MaxScoredRows}
    /\ run1 = [pc |-> "idle", NORMALIZED_TVL |-> <<>>, NORMALIZED_APY |-> <<>>,
               VORA_SCORE |-> <<>>]
    /\ run2 = run1

FirstRun ==
    /\ run1.pc = "idle"
    /\ run1' \in calculate_vora_score(pools)
    /\ UNCHANGED <<pools, run2>>

\* the same input scored again (a rerun of the script over the cached fetch)
SecondRun ==
    /\ run1.pc # "idle"
    /\ run2.pc = "idle"
    /\ run2' \in calculate_vora_score(pools)
    /\ UNCHANGED <<pools, run1>>

ScoreNext ==
    \/ FirstRun /\ UNCHANGED <<appVars, filterVars, fetchVars>>
    \/ SecondRun /\ UNCHANGED <<appVars, filterVars, fetchVars>>

SpecScore == ScoreInit /\ [][ScoreNext]_vars

----------------------------------------------------------------------------
(* Properties of the Dash machine *)

\* the composite natural key of a pool
Key(r) == <<r.Symbol, r.Chain, r.Protocol>>

ViewExcludes(view, sel) ==
    \A i \in 1..Len(view) : \A k \in 1..Len(sel) : Key(view[i]) # Key(sel[k])

\* C1: a filter change whose view holds no pool of the Selection, and the
\* update_portfolio call the new view triggers, leave the Selection as it was
SelectionSurvivesFilter ==
    [][ /\ (trigger' = "filter" => portfolio' = portfolio)
        /\ (trigger = "filter" /\ ViewExcludes(data, portfolio)
                => portfolio' = portfolio) ]_vars

\* a Selection {A, B}, a non-empty view without A and B, update served
SelectionSurvivesFilterWitness ==
    /\ trigger = "filter_done"
    /\ Len(portfolio) = 2
    /\ Key(portfolio[1]) # Key(portfolio[2])
    /\ data # <<>>
    /\ ViewExcludes(data, portfolio)

\* C2: every record merged into the Selection is afterwards its key's only
\* entry, with the merged record's values, and no two entries share a key
CompositeKeyDedup ==
    [][ (trigger \in Pending /\ data # <<>>) =>
          /\ \A i \in DerivedSelectedRows(selected_rows, data) :
                \A k \in 1..Len(portfolio') :
                    Key(portfolio'[k]) = Key(data[i]) => portfolio'[k] = data[i]
          /\ \A j, k \in 1..Len(portfolio') :
                Key(portfolio'[j]) = Key(portfolio'[k]) => j = k ]_vars

\* C3: after update_portfolio over a non-empty view, the rows of the view
\* flagged selected are in the Selection and the rows not flagged are not
ReconcileAgainstView ==
    (trigger \in {"filter_done", "user_done"} /\ data # <<>>) =>
        \A i \in 1..Len(data) :
            InList(data[i], portfolio)
                <=> i \in DerivedSelectedRows(selected_rows, data)

\* C9: whenever the Selection reported on is empty, the stats are the
\* "No LPs selected." sentinel and no mean over zero records is shown
EmptyAggregateIsSentinel ==
    (trigger \in {"filter_done", "user_done"} /\ portfolio = <<>>) =>
        /\ stats.kind = "No LPs selected."
        /\ \A k \in 1..Len(stats.shown) : ~stats.shown[k].nan

\* the rows of the view whose pool, by composite key, is in the Selection
RowsOfSelection(view, sel) ==
    {i \in 1..Len(view) : \E k \in 1..Len(sel) : Key(sel[k]) = Key(view[i])}

\* C11: after a filter change the rows marked selected in the returned,
\* score-sorted view are exactly the rows of that view whose pool is in the
\* Selection
MarkedRowsAreSelection ==
    trigger = "filter" =>
        /\ selected_rows \subseteq 1..Len(data)
        /\ selected_rows = RowsOfSelection(data, portfolio)

----------------------------------------------------------------------------
(* Properties of update_portfolio *)

\* C12: update_portfolio called with an empty view leaves the stored
\* portfolio exactly as it was, whatever the selected row indices are
EmptyViewKeepsPortfolio ==
    [][ (trigger \in Pending /\ data = <<>>) => portfolio' = portfolio ]_vars

\* served over an empty view with rows selected and a stored portfolio of
\* two pools
EmptyViewKeepsPortfolioWitness ==
    /\ trigger \in {"filter_done", "user_done"}
    /\ data = <<>>
    /\ selected_rows # {}
    /\ Len(portfolio) = 2
    /\ stats = NoLPsSelected

----------------------------------------------------------------------------
(* Properties of update_results *)

\* symbol contains token, case-insensitively, as a substring
ContainsIgnoreCase(sym, tok) ==
    \E k \in 1..(Len(sym) - Len(tok) + 1) :
        \A j \in 1..Len(tok) : Lower(tok[j]) = Lower(sym[k + j - 1])

\* the record satisfies every supplied criterion
Satisfies(r, c) ==
    /\ (c.chains # {} => r.Chain \in c.chains)
    /\ (c.protocols # {} => r.Protocol \in c.protocols)
    /\ (c.token1 # NoToken => ContainsIgnoreCase(r.Symbol, c.token1))
    /\ (c.token2 # NoToken => ContainsIgnoreCase(r.Symbol, c.token2))
    /\ r.TVL >= c.tvl
    /\ r.APY >= c.apy

\* C4: the output holds a record iff the record satisfies every supplied
\* criterion
FiltersConjunctive ==
    fphase = "once" =>
        \A i \in 1..Len(df) :
            InList(df[i].rec, out1) <=> Satisfies(df[i].rec, criteria)

\* C5: with every criterion at its default the output is the full ranked
\* collection, same records in the same order
DefaultCriteriaIdentity ==
    (fphase = "once" /\ criteria = DefaultCriteria) => out1 = ToRecords(df)

\* C10: the filter applied to its own output returns that output, same
\* records in the same order
FilterIdempotent ==
    fphase = "twice" => out2 = out1

----------------------------------------------------------------------------
(* Properties of fetch_data *)

Failed(o) == o # "ok"

\* C6: at most MAX_RETRIES attempts, every failed attempt short of the last
\* is followed by another, nothing is raised and nothing blocks; a call that
\* returned either met a success and returns its data, or used up its
\* attempts on failures and returns the empty result
FetchBoundedRetries ==
    /\ Len(attempts) <= MAX_RETRIES
    /\ fetched.pc \in {"running", "returned"}
    /\ fetched.pc = "returned" =>
          \/ /\ attempts # <<>>
             /\ attempts[Len(attempts)] = "ok"
             /\ fetched.value # <<>>
          \/ /\ Len(attempts) = MAX_RETRIES
             /\ \A k \in 1..Len(attempts) : Failed(attempts[k])
             /\ fetched.value = <<>>

----------------------------------------------------------------------------
(* Properties of the Score Engine *)

InUnitRange(x) == ~x.nan /\ 0 <= x.n /\ x.n <= x.d

IsZero(x) == ~x.nan /\ x.n = 0

Degenerate(series) == series = <<>> \/ MaxSeq(series) = MinSeq(series)

NormalizedOk(series, normed) ==
    \A i \in 1..Len(normed) :
        /\ InUnitRange(normed[i])
        /\ Degenerate(series) => IsZero(normed[i])

\* C7: every normalized TVL and APY is in [0, 1], and is exactly 0 when the
\* column's maximum equals its minimum
NormalizationInRange ==
    run1.pc # "idle" =>
        /\ Len(run1.NORMALIZED_TVL) = Len(pools)
        /\ Len(run1.NORMALIZED_APY) = Len(pools)
        /\ NormalizedOk(Column(pools, "TVL"), run1.NORMALIZED_TVL)
        /\ NormalizedOk(Column(pools, "APY"), run1.NORMALIZED_APY)

\* C8: two runs of the Score Engine over the same collection give every
\* record the same score
ScoringDeterministic ==
    (run1.pc # "idle" /\ run2.pc # "idle") => run1 = run2

====
